---- MODULE Spec2Model ----
(***************************************************************************)
(* Model of the request logger's /api/log route (src/app/api/log/route.ts) *)
(* the module-level array requestLog and the handlers POST (with its PUT   *)
(* and PATCH aliases), GET and DELETE, followed by the dashboard's view of *)
(* the log: the UserStats and session grouping computations and the home   *)
(* page's fetch, clear and sender selection (src/app/page.tsx,             *)
(* src/app/components/UserStats.tsx).                                      *)
(*                                                                         *)
(* JavaScript strings are modelled as sequences of one-character strings,  *)
(* so that toLowerCase, toUpperCase, includes, split and JSON.stringify    *)
(* are computed character by character.                                    *)
(***************************************************************************)
EXTENDS Integers, Sequences, FiniteSets, Bags, TLC

\* ------------------------------------------------------------------------
\* Bounds of the model (not program constants)
\* ------------------------------------------------------------------------
MaxPosts == 3
MaxInflight == 1
MaxPostsCap == 302
MaxInflightCap == 2
MaxPostsVerbs == 2
MaxPostsClock == 3
MaxClock == 2
MaxLenView == 3
MaxPostsSearch == 2
MaxInflightSearch == 1
MaxPostsRace == 3
MaxInflightRace == 2
MaxClockRace == 2
MaxPostsHome == 2
MaxInflightHome == 1
MaxCallsHome == 2
MaxPostsUsers == 2
MaxInflightUsers == 1
MaxCallsUsers == 2

\* ------------------------------------------------------------------------
\* JavaScript values
\* ------------------------------------------------------------------------
\* null where a string could stand (a missing header or query parameter);
\* a one-element tuple, which no string of characters equals
Null == <<"null">>

\* undefined where a string could stand (`?.` on a missing header)
Undefined == <<"undefined">>

\* a decoded request body: null, or an object given by its members
NullBody == [type |-> "null"]

ObjectBody(ms) == [type |-> "object", members |-> ms]

\* ------------------------------------------------------------------------
\* String primitives
\* ------------------------------------------------------------------------
UpperCaseLetters == <<"A", "B", "C", "D", "E", "F", "G", "H", "I", "J", "K", "L", "M", "N", "O", "P", "Q", "R", "S", "T", "U", "V", "W", "X", "Y", "Z">>

LowerCaseLetters == <<"a", "b", "c", "d", "e", "f", "g", "h", "i", "j", "k", "l", "m", "n", "o", "p", "q", "r", "s", "t", "u", "v", "w", "x", "y", "z">>

DecimalDigits == <<"0", "1", "2", "3", "4", "5", "6", "7", "8", "9">>

\* the characters that occur in the strings of the model
Alphabet ==
    {UpperCaseLetters[i] : i \in 1..26} \cup {LowerCaseLetters[i] : i \in 1..26}
        \cup {DecimalDigits[i] : i \in 1..10}
        \cup {" ", "-", ".", ",", ":", "/", "{", "}", "\"", "\\", "_", "@", "?", "=", "&"}

\* the 1-based position of c in the tuple t, 0 when absent
IndexOf(t, c) ==
    IF \E i \in 1..Len(t) : t[i] = c
    THEN CHOOSE i \in 1..Len(t) : t[i] = c
    ELSE 0

\* the lower-case form of each character: letters map to their lower-case
\* letter, every other character to itself
LowerChar ==
    [c \in Alphabet |->
        LET i == IndexOf(UpperCaseLetters, c)
        IN  IF i = 0 THEN c ELSE LowerCaseLetters[i]]

\* the upper-case form of each character
UpperChar ==
    [c \in Alphabet |->
        LET i == IndexOf(LowerCaseLetters, c)
        IN  IF i = 0 THEN c ELSE UpperCaseLetters[i]]

\* String.prototype.toLowerCase
ToLowerCase(s) == CHOOSE r \in {[i \in 1..Len(s) |-> LowerChar[s[i]]]} : TRUE

\* String.prototype.toUpperCase
ToUpperCase(s) == CHOOSE r \in {[i \in 1..Len(s) |-> UpperChar[s[i]]]} : TRUE

\* String.prototype.includes
Includes(s, q) ==
    \E text \in {s}, part \in {q} :
        \E i \in 0..(Len(text) - Len(part)) :
            \A j \in 1..Len(part) : text[i + j] = part[j]

\* String.prototype.split(',')[0]: the part before the first comma
RECURSIVE SplitFirst(_)
SplitFirst(s) ==
    IF s = <<>> \/ Head(s) = "," THEN <<>>
    ELSE <<Head(s)>> \o SplitFirst(Tail(s))

\* decimal rendering of a natural number (template literal / String(n))
RECURSIVE NumberToString(_)
NumberToString(n) ==
    IF n < 10 THEN <<DecimalDigits[n + 1]>>
    ELSE NumberToString(n \div 10) \o <<DecimalDigits[(n % 10) + 1]>>

\* n rendered in at least w digits, zero padded on the left
RECURSIVE PadStart(_, _)
PadStart(s, w) == IF Len(s) >= w THEN s ELSE PadStart(<<"0">> \o s, w)

\* Date.prototype.toISOString for an instant t milliseconds after the epoch,
\* t < 1000 (the model's clock stays within the first second)
ToISOString(t) ==
    <<"1", "9", "7", "0", "-", "0", "1", "-", "0", "1", "T", "0", "0", ":", "0", "0", ":", "0", "0", ".">>
        \o PadStart(NumberToString(t), 3) \o <<"Z">>

\* ------------------------------------------------------------------------
\* JSON.stringify
\* ------------------------------------------------------------------------
\* a string value: quoted, with the quote and the backslash escaped
RECURSIVE JsonEscape(_)
JsonEscape(s) ==
    IF s = <<>> THEN <<>>
    ELSE (IF Head(s) = "\"" \/ Head(s) = "\\" THEN <<"\\", Head(s)>> ELSE <<Head(s)>>)
            \o JsonEscape(Tail(s))

JsonString(s) == <<"\"">> \o JsonEscape(s) \o <<"\"">>

\* an object given as a sequence of <<key, serialized value>> members
RECURSIVE JsonMembers(_)
JsonMembers(ms) ==
    IF ms = <<>> THEN <<>>
    ELSE JsonString(ms[1][1]) \o <<":">> \o ms[1][2]
            \o (IF Len(ms) > 1 THEN <<",">> ELSE <<>>)
            \o JsonMembers(Tail(ms))

JsonObject(ms) == <<"{">> \o JsonMembers(ms) \o <<"}">>

\* an object whose values are all strings (headers, decoded bodies),
\* given as a sequence of <<key, string>> pairs in property order
JsonStringMap(ps) ==
    JsonObject([i \in 1..Len(ps) |-> <<ps[i][1], JsonString(ps[i][2])>>])

\* the body property: null or an object of string values
JsonBody(b) ==
    IF b.type = "null" THEN <<"n", "u", "l", "l">> ELSE JsonStringMap(b.members)

\* JSON.stringify(req) for a LoggedRequest, properties in creation order
Stringify(req) ==
    JsonObject(<<
        << <<"i", "d">>, JsonString(req.id) >>,
        << <<"m", "e", "t", "h", "o", "d">>, JsonString(req.method) >>,
        << <<"h", "e", "a", "d", "e", "r", "s">>, JsonStringMap(req.headers) >>,
        << <<"b", "o", "d", "y">>, JsonBody(req.body) >>,
        << <<"t", "i", "m", "e", "s", "t", "a", "m", "p">>, JsonString(req.timestamp) >>,
        << <<"i", "p">>, JsonString(req.ip) >>,
        << <<"u", "r", "l">>, JsonString(req.url) >> >>)

\* ------------------------------------------------------------------------
\* Inputs: requests a client can send
\* ------------------------------------------------------------------------
POST_ == <<"P", "O", "S", "T">>

PUT_ == <<"P", "U", "T">>

PATCH_ == <<"P", "A", "T", "C", "H">>

\* request.url of the collection endpoint
LogUrl == <<"h", "t", "t", "p", ":", "/", "/", "l", "o", "c", "a", "l", "h", "o", "s", "t", ":", "3", "0", "0", "0", "/", "a", "p", "i", "/", "l", "o", "g">>

\* request headers, as the <<name, value>> entries Headers.forEach visits
PlainHeaders == << << <<"h", "o", "s", "t">>, <<"l", "o", "c", "a", "l", "h", "o", "s", "t", ":", "3", "0", "0", "0">> >> >>

ForwardedHeaders ==
    << << <<"h", "o", "s", "t">>, <<"l", "o", "c", "a", "l", "h", "o", "s", "t", ":", "3", "0", "0", "0">> >>,
       << <<"x", "-", "f", "o", "r", "w", "a", "r", "d", "e", "d", "-", "f", "o", "r">>,
          <<"2", "0", "3", ".", "0", ".", "1", "1", "3", ".", "7", ",", " ", "1", "0", ".", "0", ".", "0", ".", "1">> >>,
       << <<"x", "-", "r", "e", "a", "l", "-", "i", "p">>, <<"1", "9", "8", ".", "5", "1", ".", "1", "0", "0", ".", "2">> >> >>

RealIpHeaders ==
    << << <<"x", "-", "r", "e", "a", "l", "-", "i", "p">>, <<"1", "9", "8", ".", "5", "1", ".", "1", "0", "0", ".", "2">> >>,
       << <<"x", "-", "f", "o", "r", "w", "a", "r", "d", "e", "d", "-", "f", "o", "r">>, <<>> >> >>

\* decoded JSON bodies: sequences of <<key, string value>> members
\* {senderId: "u1", recipientId: "r1", source: "NYT"}
BodyNyt ==
    ObjectBody(<< << <<"s", "e", "n", "d", "e", "r", "I", "d">>, <<"u", "1">> >>,
       << <<"r", "e", "c", "i", "p", "i", "e", "n", "t", "I", "d">>, <<"r", "1">> >>,
       << <<"s", "o", "u", "r", "c", "e">>, <<"N", "Y", "T">> >> >>)

\* {emailSubject: "Weekly Digest", source: "X"}
BodyDigest ==
    ObjectBody(<< << <<"e", "m", "a", "i", "l", "S", "u", "b", "j", "e", "c", "t">>, <<"W", "e", "e", "k", "l", "y", " ", "D", "i", "g", "e", "s", "t">> >>,
       << <<"s", "o", "u", "r", "c", "e">>, <<"X">> >> >>)

\* {recipientId: "r2", source: "X"}
BodyOther ==
    ObjectBody(<< << <<"r", "e", "c", "i", "p", "i", "e", "n", "t", "I", "d">>, <<"r", "2">> >>,
       << <<"s", "o", "u", "r", "c", "e">>, <<"X">> >> >>)

\* {}
BodyEmpty == ObjectBody(<<>>)

\* what `await request.json().catch(() => null)` can resolve to: a decoded
\* object, or null when the body is absent or is not JSON
Bodies == {BodyNyt, BodyDigest, BodyOther, BodyEmpty, NullBody}

\* results of Math.random().toString(36).substr(2, 9)
RandA == <<"k", "3", "x", "9">>

RandB == <<"q", "0", "z">>

\* ------------------------------------------------------------------------
\* Helpers of the route
\* ------------------------------------------------------------------------
\* JavaScript truthiness of a string-or-null value: null, undefined and the
\* empty string are falsy
Truthy(v) == v # Null /\ v # Undefined /\ v # <<>>

\* Headers.get(name): the value of the entry called name, or null
HeadersGet(hs, name) ==
    IF \E i \in 1..Len(hs) : hs[i][1] = name
    THEN hs[CHOOSE i \in 1..Len(hs) : hs[i][1] = name][2]
    ELSE Null

\* generateId: `${Date.now()}-${Math.random().toString(36).substr(2, 9)}`
generateId(now, rnd) == NumberToString(now) \o <<"-">> \o rnd

\* getIpAddress
getIpAddress(hs) ==
    LET xff == HeadersGet(hs, <<"x", "-", "f", "o", "r", "w", "a", "r", "d", "e", "d", "-", "f", "o", "r">>)
        first == IF xff = Null THEN Undefined ELSE SplitFirst(xff)
        real == HeadersGet(hs, <<"x", "-", "r", "e", "a", "l", "-", "i", "p">>)
        cf == HeadersGet(hs, <<"c", "f", "-", "c", "o", "n", "n", "e", "c", "t", "i", "n", "g", "-", "i", "p">>)
    IN  IF Truthy(first) THEN first
        ELSE IF Truthy(real) THEN real
        ELSE IF Truthy(cf) THEN cf
        ELSE <<"u", "n", "k", "n", "o", "w", "n">>

\* obj[key] = value on an object kept as a sequence of members: an existing
\* property keeps its place and takes the new value, a new one goes last
SetProperty(obj, key, value) ==
    IF \E i \in 1..Len(obj) : obj[i][1] = key
    THEN [i \in 1..Len(obj) |-> IF obj[i][1] = key THEN <<key, value>> ELSE obj[i]]
    ELSE Append(obj, <<key, value>>)

\* headersToObject: headers.forEach((value, key) => { obj[key] = value })
RECURSIVE headersToObjectFrom(_, _)
headersToObjectFrom(obj, hs) ==
    IF hs = <<>> THEN obj
    ELSE headersToObjectFrom(SetProperty(obj, hs[1][1], hs[1][2]), Tail(hs))

headersToObject(hs) == headersToObjectFrom(<<>>, hs)

\* number of requests the log keeps (route.ts: `requestLog.length > 100`)
LogLimit == 100

\* the capacity the documentation states
CAPACITY == 300

\* mutant of Unshift: push, the new request goes to the end
UnshiftAsPush(log, req) == log \o <<req>>

\* mutant of Unshift: a request whose body did not decode is dropped
UnshiftDecodedOnly(log, req) == IF req.body.type = "null" THEN log ELSE <<req>> \o log

\* requestLog.unshift(loggedRequest)
Unshift(log, req) == <<req>> \o log

\* mutant of Truncate: the cut drops the newest requests, not the oldest
TruncateFront(log) ==
    IF Len(log) > LogLimit THEN SubSeq(log, Len(log) - LogLimit + 1, Len(log)) ELSE log

\* mutant of Truncate: the log is never cut
TruncateNever(log) == log

\* if (requestLog.length > 100) requestLog.length = 100
Truncate(log) == IF Len(log) > LogLimit THEN SubSeq(log, 1, LogLimit) ELSE log

\* mutant of LoggedRequest: the method is written as the literal POST
LoggedRequestAsPost(h, body, idNow, now, rnd, ordinal) ==
    [ id |-> generateId(idNow, rnd),
      method |-> <<"P", "O", "S", "T">>,
      headers |-> headersToObject(h.headers),
      body |-> body,
      timestamp |-> ToISOString(now),
      ip |-> getIpAddress(h.headers),
      url |-> h.url,
      n |-> ordinal,
      started |-> h.started ]

\* mutant of LoggedRequest: the timestamp is the time the handler started
LoggedRequestStampedAtStart(h, body, idNow, now, rnd, ordinal) ==
    [ id |-> generateId(idNow, rnd),
      method |-> h.method,
      headers |-> headersToObject(h.headers),
      body |-> body,
      timestamp |-> ToISOString(h.started),
      ip |-> getIpAddress(h.headers),
      url |-> h.url,
      n |-> ordinal,
      started |-> h.started ]

\* the LoggedRequest the POST handler builds; idNow is the clock generateId
\* reads, now the clock `new Date()` reads after it. The fields n and
\* started are not properties of the object: n is the ordinal of the
\* insertion in the lifetime of the process, kept to tell insertion order,
\* and started is the time at which the handler was entered; Stringify
\* sees neither.
LoggedRequest(h, body, idNow, now, rnd, ordinal) ==
    [ id |-> generateId(idNow, rnd),
      method |-> h.method,
      headers |-> headersToObject(h.headers),
      body |-> body,
      timestamp |-> ToISOString(now),
      ip |-> getIpAddress(h.headers),
      url |-> h.url,
      n |-> ordinal,
      started |-> h.started ]

\* URLSearchParams.get(name) on a query given as <<name, value>> pairs
SearchParamsGet(params, name) ==
    IF \E i \in 1..Len(params) : params[i][1] = name
    THEN params[CHOOSE i \in 1..Len(params) :
                    /\ params[i][1] = name
                    /\ \A j \in 1..(i - 1) : params[j][1] # name][2]
    ELSE Null

\* mutant of MethodMatches: the parameter is compared as given
MethodMatchesVerbatim(req, methodFilter) == req.method = methodFilter

\* the method filter of GET: req.method === methodFilter.toUpperCase()
MethodMatches(req, methodFilter) == req.method = ToUpperCase(methodFilter)

\* mutant of SearchMatches: only the body is searched
SearchMatchesBodyOnly(req, searchQuery) ==
    \E text \in {JsonBody(req.body)} :
        Includes(ToLowerCase(text), ToLowerCase(searchQuery))

\* mutant of SearchMatches: the comparison is case-sensitive
SearchMatchesCaseSensitive(req, searchQuery) ==
    \E text \in {Stringify(req)} : Includes(text, searchQuery)

\* the search filter of GET:
\* JSON.stringify(req).toLowerCase().includes(searchQuery.toLowerCase())
SearchMatches(req, searchQuery) ==
    \E text \in {Stringify(req)} :
        Includes(ToLowerCase(text), ToLowerCase(searchQuery))

\* if (methodFilter) filtered = filtered.filter(...)
FilterByMethod(list, methodFilter) ==
    IF Truthy(methodFilter)
    THEN SelectSeq(list, LAMBDA req : MethodMatches(req, methodFilter))
    ELSE list

\* if (searchQuery) filtered = filtered.filter(...)
FilterBySearch(list, searchQuery) ==
    IF Truthy(searchQuery)
    THEN SelectSeq(list, LAMBDA req : SearchMatches(req, searchQuery))
    ELSE list

\* mutant of Filtered: the answer is cut to a page of two
FilteredPaged(log, params) ==
    LET all == FilterBySearch(FilterByMethod(log, SearchParamsGet(params, "method")),
                              SearchParamsGet(params, "search"))
    IN  SubSeq(all, 1, IF Len(all) < 2 THEN Len(all) ELSE 2)

\* the list GET answers with: a copy of the log, narrowed by the method
\* filter and then by the search filter
Filtered(log, params) ==
    FilterBySearch(FilterByMethod(log, SearchParamsGet(params, "method")),
                   SearchParamsGet(params, "search"))

\* useState('ALL'): the selection that stands for every user
ALL == <<"A", "L", "L">>

\* ------------------------------------------------------------------------
\* State
\* ------------------------------------------------------------------------
VARIABLES
    requestLog,   \* the module-level array, newest first
    inflight,     \* bag of POST/PUT/PATCH handlers waiting on request.json()
    clock,        \* Date.now(), milliseconds
    resp,         \* the response most recently sent
    inserted,     \* number of insertions in the lifetime of the process
    sinceClear,   \* number of insertions since the most recent DELETE
    requests,         \* Home: useState requests, the list the page shows
    filteredRequests, \* Home: useState filteredRequests
    selectedUser,     \* Home: useState selectedUser
    calls,            \* bag of the page's fetch calls that have not resolved yet
    memo,             \* what the most recent useMemo computation returned
    shownFor,         \* the selection for which the shown list was fetched
    removed           \* ordinals of the requests a completed Clear All removed

\* the state of the server
serverVars == <<requestLog, inflight, clock, resp, inserted, sinceClear>>

\* the state of the page in the browser
homeVars == <<requests, filteredRequests, selectedUser, calls, memo, shownFor, removed>>

vars == <<requestLog, inflight, clock, resp, inserted, sinceClear,
          requests, filteredRequests, selectedUser, calls, memo, shownFor, removed>>

Init ==
    /\ requestLog = <<>>
    /\ inflight = EmptyBag
    /\ clock = 0
    /\ resp = [op |-> "none"]
    /\ inserted = 0
    /\ sinceClear = 0
    /\ requests = <<>>
    /\ filteredRequests = <<>>
    /\ selectedUser = ALL
    /\ calls = EmptyBag
    /\ memo = [op |-> "none"]
    /\ shownFor = ALL
    /\ removed = {}

\* ------------------------------------------------------------------------
\* Handlers
\* ------------------------------------------------------------------------
\* POST (also entered through PUT and PATCH) up to `await request.json()`;
\* the waiting handler is remembered with its request and the time it was
\* entered
PostStart(m, hs, u) ==
    /\ inflight' = inflight (+) SetToBag({[method |-> m, headers |-> hs, url |-> u,
                                           started |-> clock]})
    /\ UNCHANGED <<requestLog, clock, resp, inserted, sinceClear>>
    /\ UNCHANGED homeVars

\* PUT: return POST(request), with request.method = 'PUT'
Put(hs, u) == PostStart(PUT_, hs, u)

\* PATCH: return POST(request), with request.method = 'PATCH'
Patch(hs, u) == PostStart(PATCH_, hs, u)

\* POST after the await: the body resolved to `body` (null when decoding
\* failed); build the record, insert it in front, truncate, answer 201.
\* generateId reads the clock first; the clock may have advanced by `lag`
\* when `new Date()` reads it for the timestamp.
PostFinish(h, body, rnd, lag) ==
    /\ BagIn(h, inflight)
    /\ LET req == LoggedRequest(h, body, clock, clock + lag, rnd, inserted + 1)
       IN  /\ requestLog' = Truncate(Unshift(requestLog, req))
           /\ resp' = [op |-> "POST", status |-> 201, success |-> TRUE,
                       id |-> req.id, timestamp |-> req.timestamp]
    /\ inflight' = inflight (-) SetToBag({h})
    /\ inserted' = inserted + 1
    /\ sinceClear' = sinceClear + 1
    /\ clock' = clock + lag
    /\ UNCHANGED homeVars

\* mutant of PostThrow: the exception is raised after the unshift
PostThrowAfterUnshift(h) ==
    /\ BagIn(h, inflight)
    /\ requestLog' = Truncate(Unshift(requestLog,
                        LoggedRequest(h, NullBody, clock, clock, RandA, inserted + 1)))
    /\ resp' = [op |-> "POST", status |-> 500, success |-> FALSE,
                error |-> <<"F", "a", "i", "l", "e", "d", " ", "t", "o", " ", "l", "o", "g", " ", "r", "e", "q", "u", "e", "s", "t">>]
    /\ inflight' = inflight (-) SetToBag({h})
    /\ inserted' = inserted + 1
    /\ sinceClear' = sinceClear + 1
    /\ UNCHANGED clock
    /\ UNCHANGED homeVars

\* POST when one of the calls that build the record (route.ts:43-53) throws:
\* the catch clause answers 500. The statements after the unshift are the
\* assignment to requestLog.length and NextResponse.json, the call the catch
\* clause itself answers with.
PostThrow(h) ==
    /\ BagIn(h, inflight)
    /\ resp' = [op |-> "POST", status |-> 500, success |-> FALSE,
                error |-> <<"F", "a", "i", "l", "e", "d", " ", "t", "o", " ", "l", "o", "g", " ", "r", "e", "q", "u", "e", "s", "t">>]
    /\ inflight' = inflight (-) SetToBag({h})
    /\ UNCHANGED <<requestLog, clock, inserted, sinceClear>>
    /\ UNCHANGED homeVars

\* mutant of Get: the log itself is narrowed, not a copy of it
GetInPlace(params) ==
    /\ LET filtered == Filtered(requestLog, params)
       IN  /\ resp' = [op |-> "GET", status |-> 200, params |-> params,
                       requests |-> filtered, total |-> Len(filtered)]
           /\ requestLog' = filtered
    /\ UNCHANGED <<inflight, clock, inserted, sinceClear>>
    /\ UNCHANGED homeVars

\* GET
Get(params) ==
    /\ LET filtered == Filtered(requestLog, params)
       IN  resp' = [op |-> "GET", status |-> 200, params |-> params,
                    requests |-> filtered, total |-> Len(filtered)]
    /\ UNCHANGED <<requestLog, inflight, clock, inserted, sinceClear>>
    /\ UNCHANGED homeVars

\* mutant of Delete: the count is read after the log was emptied
DeleteCountsAfter ==
    /\ requestLog' = <<>>
    /\ resp' = [op |-> "DELETE", status |-> 200, success |-> TRUE, cleared |-> Len(requestLog')]
    /\ sinceClear' = 0
    /\ UNCHANGED <<inflight, clock, inserted>>
    /\ UNCHANGED homeVars

\* DELETE
Delete ==
    /\ LET count == Len(requestLog)
       IN  resp' = [op |-> "DELETE", status |-> 200, success |-> TRUE, cleared |-> count]
    /\ requestLog' = <<>>
    /\ sinceClear' = 0
    /\ UNCHANGED <<inflight, clock, inserted>>
    /\ UNCHANGED homeVars

\* the server clock advances
Tick ==
    /\ clock' = clock + 1
    /\ UNCHANGED <<requestLog, inflight, resp, inserted, sinceClear>>
    /\ UNCHANGED homeVars

\* ------------------------------------------------------------------------
\* Queries a client can send to GET, as <<parameter, value>> pairs
\* ------------------------------------------------------------------------
NoFilter == <<>>

MethodPost == << <<"method", <<"p", "o", "s", "t">> >> >>

MethodGet == << <<"method", <<"G", "E", "T">> >> >>

SearchDigest == << <<"search", <<"d", "i", "g", "e", "s", "t">> >> >>

SearchDigestUpper == << <<"search", <<"D", "I", "G", "E", "S", "T">> >> >>

SearchUnrelated == << <<"search", <<"q", "q", "q">> >> >>

SourceXAndIsEmail == << <<"source", <<"X">> >>, <<"isEmail", <<"t", "r", "u", "e">> >> >>

RecipientR1 == << <<"recipientId", <<"r", "1">> >> >>

SenderU1 == << <<"senderId", <<"u", "1">> >> >>

Queries == {NoFilter, MethodPost, MethodGet, SearchDigest, SearchDigestUpper,
            SearchUnrelated, SourceXAndIsEmail, RecipientR1, SenderU1}

\* ------------------------------------------------------------------------
\* Specification Spec: a few requests with varied bodies, all sent within
\* one millisecond
\* ------------------------------------------------------------------------
StartPost ==
    /\ inserted + BagCardinality(inflight) < MaxPosts
    /\ BagCardinality(inflight) < MaxInflight
    /\ PostStart(POST_, PlainHeaders, LogUrl)

FinishPost == \E h \in BagToSet(inflight), b \in Bodies : PostFinish(h, b, RandA, 0)

Query == \E q \in Queries : Get(q)

Next == StartPost \/ FinishPost \/ Query \/ Delete

Spec == Init /\ [][Next]_vars

\* ------------------------------------------------------------------------
\* Specification SpecCap: enough requests to fill the log several times
\* ------------------------------------------------------------------------
StartPostCap ==
    /\ inserted + BagCardinality(inflight) < MaxPostsCap
    /\ BagCardinality(inflight) < MaxInflightCap
    /\ PostStart(POST_, PlainHeaders, LogUrl)

FinishPostCap == \E h \in BagToSet(inflight) : PostFinish(h, BodyEmpty, RandA, 0)

QueryCap == Get(NoFilter)

\* one DELETE in a run, of a full log
DeleteCap == inserted = sinceClear /\ Len(requestLog) = LogLimit /\ Delete

NextCap == StartPostCap \/ FinishPostCap \/ QueryCap \/ DeleteCap

SpecCap == Init /\ [][NextCap]_vars

\* ------------------------------------------------------------------------
\* Specification SpecVerbs: requests sent with POST, PUT and PATCH
\* ------------------------------------------------------------------------
\* {senderName: "Joonas Virtanen"}
BodyJoonas ==
    ObjectBody(<< << <<"s", "e", "n", "d", "e", "r", "N", "a", "m", "e">>,
                     <<"J", "o", "o", "n", "a", "s", " ", "V", "i", "r", "t", "a", "n", "e", "n">> >> >>)

MethodPutLower == << <<"method", <<"p", "u", "t">> >> >>

MethodPatchUpper == << <<"method", <<"P", "A", "T", "C", "H">> >> >>

MethodEmpty == << <<"method", <<>> >> >>

SenderNameJoonas == << <<"senderName", <<"j", "o", "o", "n", "a", "s">> >> >>

QueriesVerbs == {NoFilter, MethodPutLower, MethodPatchUpper, MethodEmpty, SenderNameJoonas}

MayStartVerbs ==
    /\ inserted + BagCardinality(inflight) < MaxPostsVerbs
    /\ BagCardinality(inflight) < MaxInflight

StartPostVerbs == MayStartVerbs /\ PostStart(POST_, PlainHeaders, LogUrl)

StartPutVerbs == MayStartVerbs /\ Put(PlainHeaders, LogUrl)

StartPatchVerbs == MayStartVerbs /\ Patch(PlainHeaders, LogUrl)

FinishPostVerbs ==
    \E h \in BagToSet(inflight), b \in {BodyEmpty, BodyJoonas} : PostFinish(h, b, RandA, 0)

QueryVerbs == \E q \in QueriesVerbs : Get(q)

NextVerbs ==
    StartPostVerbs \/ StartPutVerbs \/ StartPatchVerbs \/ FinishPostVerbs \/ QueryVerbs \/ Delete

SpecVerbs == Init /\ [][NextVerbs]_vars

\* ------------------------------------------------------------------------
\* Specification SpecClock: requests spread over a few milliseconds, with
\* two possible random parts
\* ------------------------------------------------------------------------
StartPostClock ==
    /\ inserted + BagCardinality(inflight) < MaxPostsClock
    /\ BagCardinality(inflight) < MaxInflight
    /\ PostStart(POST_, PlainHeaders, LogUrl)

FinishPostClock ==
    \E h \in BagToSet(inflight), rnd \in {RandA, RandB}, lag \in {0, 1} :
        /\ clock + lag <= MaxClock
        /\ PostFinish(h, BodyEmpty, rnd, lag)

QueryClock == Get(NoFilter)

Advance == clock < MaxClock /\ Tick

NextClock == StartPostClock \/ FinishPostClock \/ QueryClock \/ Delete \/ Advance

SpecClock == Init /\ [][NextClock]_vars

\* ------------------------------------------------------------------------
\* Specification SpecSearch: requests with different headers, bodies and
\* random parts, searched for text of their headers, id, address and URL
\* ------------------------------------------------------------------------
SearchRealIpName == << <<"search", <<"X", "-", "R", "e", "a", "l", "-", "I", "P">> >> >>

SearchForwardedIp == << <<"search", <<"2", "0", "3", ".", "0", ".", "1", "1", "3", ".", "7">> >> >>

SearchIdPart == << <<"search", <<"K", "3", "X", "9">> >> >>

SearchUrlPath == << <<"search", <<"/", "A", "P", "I", "/", "L", "o", "g">> >> >>

SearchUnknownIp == << <<"search", <<"U", "n", "k", "n", "o", "w", "n">> >> >>

QueriesSearch ==
    {SearchRealIpName, SearchForwardedIp, SearchIdPart, SearchUrlPath, SearchUnknownIp, SearchDigest}

StartPostSearch ==
    /\ inserted + BagCardinality(inflight) < MaxPostsSearch
    /\ BagCardinality(inflight) < MaxInflightSearch
    /\ \E hs \in {PlainHeaders, ForwardedHeaders} : PostStart(POST_, hs, LogUrl)

FinishPostSearch ==
    \E h \in BagToSet(inflight), b \in {BodyEmpty, BodyDigest}, rnd \in {RandA, RandB} :
        PostFinish(h, b, rnd, 0)

QuerySearch == \E q \in QueriesSearch : Get(q)

NextSearch == StartPostSearch \/ FinishPostSearch \/ QuerySearch

SpecSearch == Init /\ [][NextSearch]_vars

\* ------------------------------------------------------------------------
\* Specification SpecRace: handlers that wait on their bodies together
\* while the clock advances and the log is cleared
\* ------------------------------------------------------------------------
StartPostRace ==
    /\ inserted + BagCardinality(inflight) < MaxPostsRace
    /\ BagCardinality(inflight) < MaxInflightRace
    /\ PostStart(POST_, RealIpHeaders, LogUrl)

FinishPostRace ==
    \E h \in BagToSet(inflight), b \in {BodyEmpty, NullBody} : PostFinish(h, b, RandA, 0)

ThrowPostRace == \E h \in BagToSet(inflight) : PostThrow(h)

AdvanceRace == clock < MaxClockRace /\ Tick

NextRace == StartPostRace \/ FinishPostRace \/ ThrowPostRace \/ Delete \/ AdvanceRace

SpecRace == Init /\ [][NextRace]_vars

\* ------------------------------------------------------------------------
\* The pages in the browser: what they compute from a list of requests
\* ------------------------------------------------------------------------
\* req.name on an object that may lack the property
Property(obj, name) == IF name \in DOMAIN obj THEN obj[name] ELSE Undefined

\* the value of a decimal digit
DigitValue(c) == IndexOf(DecimalDigits, c) - 1

\* the number a string of decimal digits denotes
RECURSIVE ParseDigits(_)
ParseDigits(s) ==
    IF Len(s) = 0 THEN 0
    ELSE 10 * ParseDigits(SubSeq(s, 1, Len(s) - 1)) + DigitValue(s[Len(s)])

\* new Date(timestamp).getTime() for a timestamp toISOString made on the
\* first of January 1970: YYYY-MM-DDTHH:mm:ss.sssZ, in milliseconds
DateGetTime(s) ==
    LET hours == ParseDigits(SubSeq(s, 12, 13))
        minutes == ParseDigits(SubSeq(s, 15, 16))
        seconds == ParseDigits(SubSeq(s, 18, 19))
        millis == ParseDigits(SubSeq(s, 21, 23))
    IN  ((hours * 60 + minutes) * 60 + seconds) * 1000 + millis

\* 'anonymous', the key of the requests without a sender
Anonymous == <<"a", "n", "o", "n", "y", "m", "o", "u", "s">>

\* 'Anonymous User'
AnonymousUser == <<"A", "n", "o", "n", "y", "m", "o", "u", "s", " ", "U", "s", "e", "r">>

\* req.senderId || 'anonymous'
UserKey(req) ==
    IF Truthy(Property(req, "senderId")) THEN req.senderId ELSE Anonymous

\* req.senderName || 'Anonymous User'
UserName(req) ==
    IF Truthy(Property(req, "senderName")) THEN req.senderName ELSE AnonymousUser

\* the body of requests.forEach in UserStats: stats is the Map, kept as the
\* sequence of its values in insertion order
StatsAdd(stats, req) ==
    LET id == UserKey(req)
        reqTime == DateGetTime(req.timestamp)
        withUser ==
            IF \E i \in 1..Len(stats) : stats[i].senderId = id THEN stats
            ELSE Append(stats, [senderId |-> id, senderName |-> UserName(req), count |-> 0,
                                sessions |-> {}, lastActive |-> reqTime])
        k == CHOOSE i \in 1..Len(withUser) : withUser[i].senderId = id
        sessionId == Property(req, "sessionId")
    IN  [withUser EXCEPT ![k] =
            [@ EXCEPT !.count = @ + 1,
                      !.sessions = IF Truthy(sessionId) THEN @ \cup {sessionId} ELSE @,
                      !.lastActive = IF reqTime > @ THEN reqTime ELSE @]]

\* requests.forEach(...) on the Map stats
RECURSIVE StatsForEach(_, _)
StatsForEach(stats, reqs) ==
    IF Len(reqs) = 0 THEN stats ELSE StatsForEach(StatsAdd(stats, Head(reqs)), Tail(reqs))

\* mutant of InsertByCount: smaller counts first
RECURSIVE InsertByCountAscending(_, _)
InsertByCountAscending(sorted, x) ==
    IF Len(sorted) = 0 THEN <<x>>
    ELSE IF Head(sorted).count <= x.count
         THEN <<Head(sorted)>> \o InsertByCountAscending(Tail(sorted), x)
         ELSE <<x>> \o sorted

\* one step of the stable sort with (a, b) => b.count - a.count: x goes
\* behind every element that does not sort after it
RECURSIVE InsertByCount(_, _)
InsertByCount(sorted, x) ==
    IF Len(sorted) = 0 THEN <<x>>
    ELSE IF Head(sorted).count >= x.count
         THEN <<Head(sorted)>> \o InsertByCount(Tail(sorted), x)
         ELSE <<x>> \o sorted

\* .sort((a, b) => b.count - a.count)
RECURSIVE SortByCount(_, _)
SortByCount(sorted, list) ==
    IF Len(list) = 0 THEN sorted
    ELSE SortByCount(InsertByCount(sorted, Head(list)), Tail(list))

\* UserStats.userStats
userStats(reqs) == SortByCount(<<>>, StatsForEach(<<>>, reqs))

\* isActive: Date.now() - lastActive.getTime() < 300000
isActive(lastActive, now) == now - lastActive < 300000

\* the UserStats component renders the list it is given
UserStats ==
    /\ LET stats == userStats(requests)
       IN  memo' = [op |-> "UserStats",
                    requests |-> requests,
                    userStats |-> stats,
                    totalRequests |-> Len(requests),
                    totalUsers |-> Len(stats),
                    activeUsers |-> Cardinality({i \in 1..Len(stats) :
                                                    isActive(stats[i].lastActive, clock)})]
    /\ UNCHANGED <<serverVars, requests, filteredRequests, selectedUser, calls, shownFor, removed>>

\* 'no-session', the key of the requests without a session
NoSession == <<"n", "o", "-", "s", "e", "s", "s", "i", "o", "n">>

\* req.sessionId || 'no-session'
SessionKey(req) ==
    IF Truthy(Property(req, "sessionId")) THEN req.sessionId ELSE NoSession

\* the body of filteredRequests.forEach in sessionGroups: groups is the Map,
\* kept as the sequence of its <<key, requests>> entries in insertion order
GroupsAdd(groups, req) ==
    LET sessionKey == SessionKey(req)
        withKey ==
            IF \E i \in 1..Len(groups) : groups[i][1] = sessionKey THEN groups
            ELSE Append(groups, <<sessionKey, <<>> >>)
        k == CHOOSE i \in 1..Len(withKey) : withKey[i][1] = sessionKey
    IN  [withKey EXCEPT ![k] = <<sessionKey, Append(@[2], req)>>]

\* filteredRequests.forEach(...) on the Map groups
RECURSIVE GroupsForEach(_, _)
GroupsForEach(groups, reqs) ==
    IF Len(reqs) = 0 THEN groups ELSE GroupsForEach(GroupsAdd(groups, Head(reqs)), Tail(reqs))

\* one step of the stable sort of a group's requests, later timestamps first
RECURSIVE InsertByTimestamp(_, _)
InsertByTimestamp(sorted, x) ==
    IF Len(sorted) = 0 THEN <<x>>
    ELSE IF DateGetTime(Head(sorted).timestamp) >= DateGetTime(x.timestamp)
         THEN <<Head(sorted)>> \o InsertByTimestamp(Tail(sorted), x)
         ELSE <<x>> \o sorted

\* reqs.sort((a, b) => new Date(b.timestamp).getTime() - new Date(a.timestamp).getTime())
RECURSIVE SortByTimestamp(_, _)
SortByTimestamp(sorted, list) ==
    IF Len(list) = 0 THEN sorted
    ELSE SortByTimestamp(InsertByTimestamp(sorted, Head(list)), Tail(list))

\* Math.min(...reqs.map(r => new Date(r.timestamp).getTime()))
MinTime(reqs) ==
    CHOOSE t \in {DateGetTime(reqs[i].timestamp) : i \in 1..Len(reqs)} :
        \A i \in 1..Len(reqs) : t <= DateGetTime(reqs[i].timestamp)

\* Math.max(...reqs.map(r => new Date(r.timestamp).getTime()))
MaxTime(reqs) ==
    CHOOSE t \in {DateGetTime(reqs[i].timestamp) : i \in 1..Len(reqs)} :
        \A i \in 1..Len(reqs) : t >= DateGetTime(reqs[i].timestamp)

\* the object made of one Map entry [sessionId, reqs]
SessionGroup(entry) ==
    [sessionId |-> entry[1],
     requests |-> SortByTimestamp(<<>>, entry[2]),
     startTime |-> MinTime(entry[2]),
     endTime |-> MaxTime(entry[2]),
     count |-> Len(entry[2])]

\* mutant of InsertByEndTime: groups that ended earlier first
RECURSIVE InsertByEndTimeAscending(_, _)
InsertByEndTimeAscending(sorted, x) ==
    IF Len(sorted) = 0 THEN <<x>>
    ELSE IF Head(sorted).endTime <= x.endTime
         THEN <<Head(sorted)>> \o InsertByEndTimeAscending(Tail(sorted), x)
         ELSE <<x>> \o sorted

\* one step of the stable sort of the groups, later end first
RECURSIVE InsertByEndTime(_, _)
InsertByEndTime(sorted, x) ==
    IF Len(sorted) = 0 THEN <<x>>
    ELSE IF Head(sorted).endTime >= x.endTime
         THEN <<Head(sorted)>> \o InsertByEndTime(Tail(sorted), x)
         ELSE <<x>> \o sorted

\* .sort((a, b) => b.endTime.getTime() - a.endTime.getTime())
RECURSIVE SortByEndTime(_, _)
SortByEndTime(sorted, list) ==
    IF Len(list) = 0 THEN sorted
    ELSE SortByEndTime(InsertByEndTime(sorted, Head(list)), Tail(list))

\* Home.sessionGroups
sessionGroups(filtered, user) ==
    IF user = ALL THEN <<>>
    ELSE LET groups == GroupsForEach(<<>>, filtered)
         IN  SortByEndTime(<<>>, [i \in 1..Len(groups) |-> SessionGroup(groups[i])])

\* Home computes sessionGroups from its state
SessionGroups ==
    /\ memo' = [op |-> "sessionGroups",
                filteredRequests |-> filteredRequests,
                selectedUser |-> selectedUser,
                sessionGroups |-> sessionGroups(filteredRequests, selectedUser)]
    /\ UNCHANGED <<serverVars, requests, filteredRequests, selectedUser, calls, shownFor, removed>>

\* the effect that filters requests into filteredRequests; the method, e-mail
\* type, content type and recipient selections stay at 'ALL' and the search
\* box stays empty, so no filter of the effect narrows the list
FilterEffect ==
    /\ filteredRequests' = requests
    /\ UNCHANGED <<serverVars, requests, selectedUser, calls, memo, shownFor, removed>>

\* ------------------------------------------------------------------------
\* Specification SpecView: a page holding some list of requests computes
\* the user statistics and the session groups from it
\* ------------------------------------------------------------------------
UserU1 == <<"u", "1">>

UserU2 == <<"u", "2">>

SessionS1 == <<"s", "1">>

SessionS2 == <<"s", "2">>

\* requests as GET answers them to the page; a request has the sender and
\* session properties its sender submitted, possibly as empty strings
ViewRequests ==
    { [id |-> <<"a">>, senderId |-> UserU1, senderName |-> <<"A", "n", "n">>,
       sessionId |-> SessionS1, timestamp |-> ToISOString(0)],
      [id |-> <<"b">>, senderId |-> UserU1, sessionId |-> SessionS1, timestamp |-> ToISOString(1)],
      [id |-> <<"c">>, senderId |-> UserU1, sessionId |-> SessionS2, timestamp |-> ToISOString(2)],
      [id |-> <<"d">>, senderId |-> UserU1, timestamp |-> ToISOString(1)],
      [id |-> <<"e">>, senderId |-> UserU2, sessionId |-> SessionS1, timestamp |-> ToISOString(0)],
      [id |-> <<"f">>, timestamp |-> ToISOString(2)],
      [id |-> <<"g">>, senderId |-> <<>>, sessionId |-> <<>>, timestamp |-> ToISOString(1)],
      [id |-> <<"h">>, senderId |-> UserU2, sessionId |-> SessionS2, timestamp |-> ToISOString(2)] }

\* the lists of at most n different requests
ViewLists(n) ==
    UNION {{list \in [1..k -> ViewRequests] :
                \A i, j \in 1..k : i # j => list[i] # list[j]} : k \in 0..n}

InitView ==
    /\ requestLog = <<>>
    /\ inflight = EmptyBag
    /\ clock = 0
    /\ resp = [op |-> "none"]
    /\ inserted = 0
    /\ sinceClear = 0
    /\ requests \in ViewLists(MaxLenView)
    /\ filteredRequests = <<>>
    /\ selectedUser \in {ALL, UserU1}
    /\ calls = EmptyBag
    /\ memo = [op |-> "none"]
    /\ shownFor = selectedUser
    /\ removed = {}

NextView == FilterEffect \/ UserStats \/ SessionGroups

SpecView == InitView /\ [][NextView]_vars

\* ------------------------------------------------------------------------
\* The debug console (Home): fetchRequests and clearRequests, each split at
\* its await, and the server's handling of their calls
\* ------------------------------------------------------------------------
\* a call fetch() has sent: its method, the selection when it was sent,
\* and, once the server has answered, the list of the answer (GET) or the
\* ordinals of the requests the server removed (DELETE)
Call(method, user) ==
    [method |-> method, user |-> user, answered |-> FALSE, requests |-> <<>>, gone |-> {}]

\* the query fetchRequests builds: senderId unless the selection is 'ALL'
FetchParams(user) == IF user # ALL THEN << <<"senderId", user>> >> ELSE <<>>

\* fetchRequests up to `await fetch(url)`
FetchStart ==
    /\ calls' = calls (+) SetToBag({Call("GET", selectedUser)})
    /\ UNCHANGED <<serverVars, requests, filteredRequests, selectedUser, memo, shownFor, removed>>

\* the GET handler of the route answers a call of fetchRequests
ServeGet(c) ==
    /\ BagIn(c, calls)
    /\ c.method = "GET"
    /\ ~c.answered
    /\ LET params == FetchParams(c.user)
           filtered == Filtered(requestLog, params)
       IN  /\ resp' = [op |-> "GET", status |-> 200, params |-> params,
                       requests |-> filtered, total |-> Len(filtered)]
           /\ calls' = (calls (-) SetToBag({c}))
                           (+) SetToBag({[c EXCEPT !.answered = TRUE, !.requests = filtered]})
    /\ UNCHANGED <<requestLog, inflight, clock, inserted, sinceClear>>
    /\ UNCHANGED <<requests, filteredRequests, selectedUser, memo, shownFor, removed>>

\* fetchRequests after its awaits: setRequests(data.requests || [])
FetchFinish(c) ==
    /\ BagIn(c, calls)
    /\ c.method = "GET"
    /\ c.answered
    /\ requests' = c.requests
    /\ shownFor' = c.user
    /\ calls' = calls (-) SetToBag({c})
    /\ UNCHANGED <<serverVars, filteredRequests, selectedUser, memo, removed>>

\* clearRequests up to `await fetch('/api/log', { method: 'DELETE' })`
ClearStart ==
    /\ calls' = calls (+) SetToBag({Call("DELETE", selectedUser)})
    /\ UNCHANGED <<serverVars, requests, filteredRequests, selectedUser, memo, shownFor, removed>>

\* the DELETE handler of the route answers a call of clearRequests
ServeDelete(c) ==
    /\ BagIn(c, calls)
    /\ c.method = "DELETE"
    /\ ~c.answered
    /\ LET count == Len(requestLog)
       IN  resp' = [op |-> "DELETE", status |-> 200, success |-> TRUE, cleared |-> count]
    /\ requestLog' = <<>>
    /\ sinceClear' = 0
    /\ calls' = (calls (-) SetToBag({c}))
                    (+) SetToBag({[c EXCEPT !.answered = TRUE,
                                            !.gone = {requestLog[i].n : i \in 1..Len(requestLog)}]})
    /\ UNCHANGED <<inflight, clock, inserted>>
    /\ UNCHANGED <<requests, filteredRequests, selectedUser, memo, shownFor, removed>>

\* clearRequests after its await: setRequests([]) (and setSelectedRequest(null),
\* the inspector's selection, which is not part of the model)
ClearFinish(c) ==
    /\ BagIn(c, calls)
    /\ c.method = "DELETE"
    /\ c.answered
    /\ requests' = <<>>
    /\ removed' = removed \cup c.gone
    /\ calls' = calls (-) SetToBag({c})
    /\ UNCHANGED <<serverVars, filteredRequests, selectedUser, memo, shownFor>>

\* ------------------------------------------------------------------------
\* Specification SpecHome: the debug console open on the route, with
\* requests being logged, refreshes and Clear All
\* ------------------------------------------------------------------------
\* the page after its first render: the effect on [selectedUser] has called
\* fetchRequests
InitHome ==
    /\ requestLog = <<>>
    /\ inflight = EmptyBag
    /\ clock = 0
    /\ resp = [op |-> "none"]
    /\ inserted = 0
    /\ sinceClear = 0
    /\ requests = <<>>
    /\ filteredRequests = <<>>
    /\ selectedUser = ALL
    /\ calls = SetToBag({Call("GET", ALL)})
    /\ memo = [op |-> "none"]
    /\ shownFor = ALL
    /\ removed = {}

StartPostHome ==
    /\ inserted + BagCardinality(inflight) < MaxPostsHome
    /\ BagCardinality(inflight) < MaxInflightHome
    /\ PostStart(POST_, PlainHeaders, LogUrl)

FinishPostHome == \E h \in BagToSet(inflight) : PostFinish(h, BodyEmpty, RandA, 0)

\* the Refresh button, or a tick of the auto-refresh interval
RefreshHome == BagCardinality(calls) < MaxCallsHome /\ FetchStart

AnswerGetHome == \E c \in BagToSet(calls) : ServeGet(c)

FetchFinishHome == \E c \in BagToSet(calls) : FetchFinish(c)

\* the Clear All button
ClearAllHome == BagCardinality(calls) < MaxCallsHome /\ ClearStart

AnswerDeleteHome == \E c \in BagToSet(calls) : ServeDelete(c)

ClearFinishHome == \E c \in BagToSet(calls) : ClearFinish(c)

\* the filtering effect runs when requests has changed
FilterEffectHome == filteredRequests # requests /\ FilterEffect

NextHome ==
    \/ StartPostHome \/ FinishPostHome
    \/ RefreshHome \/ AnswerGetHome \/ FetchFinishHome
    \/ ClearAllHome \/ AnswerDeleteHome \/ ClearFinishHome
    \/ FilterEffectHome

SpecHome == InitHome /\ [][NextHome]_vars

\* ------------------------------------------------------------------------
\* Specification SpecUsers: the debug console open on a server that keeps
\* the sender's identity with each request, as documented, so that the
\* page has users to select
\* ------------------------------------------------------------------------
\* the value of the member called key of a decoded body, null when the body
\* is null or has no such member
BodyValue(body, key) ==
    IF body.type = "object" /\ \E i \in 1..Len(body.members) : body.members[i][1] = key
    THEN body.members[CHOOSE i \in 1..Len(body.members) : body.members[i][1] = key][2]
    ELSE Null

\* the body is an object that has a member called key
BodyHas(body, key) ==
    body.type = "object" /\ \E i \in 1..Len(body.members) : body.members[i][1] = key

KeySenderId == <<"s", "e", "n", "d", "e", "r", "I", "d">>

KeySenderName == <<"s", "e", "n", "d", "e", "r", "N", "a", "m", "e">>

KeySessionId == <<"s", "e", "s", "s", "i", "o", "n", "I", "d">>

\* the record with the member called key of the body copied to the property
\* called name, when the body has that member
WithMember(req, body, key, name) ==
    IF BodyHas(body, key) THEN [f \in {name} |-> BodyValue(body, key)] @@ req ELSE req

\* the sender's name, id and session are kept with the request whenever the
\* body has them
WithSenderIdentity(req, body) ==
    WithMember(WithMember(WithMember(req, body, KeySenderId, "senderId"),
                          body, KeySenderName, "senderName"),
               body, KeySessionId, "sessionId")

\* POST after the await, on the documented server
PostFinishWithIdentity(h, body, rnd, lag) ==
    /\ BagIn(h, inflight)
    /\ LET req == WithSenderIdentity(
                      LoggedRequest(h, body, clock, clock + lag, rnd, inserted + 1), body)
       IN  /\ requestLog' = Truncate(Unshift(requestLog, req))
           /\ resp' = [op |-> "POST", status |-> 201, success |-> TRUE,
                       id |-> req.id, timestamp |-> req.timestamp]
    /\ inflight' = inflight (-) SetToBag({h})
    /\ inserted' = inserted + 1
    /\ sinceClear' = sinceClear + 1
    /\ clock' = clock + lag
    /\ UNCHANGED homeVars

\* the senderId filter of the documented GET: exact match
FilterBySenderId(list, senderId) ==
    IF Truthy(senderId)
    THEN SelectSeq(list, LAMBDA req : Property(req, "senderId") = senderId)
    ELSE list

\* the documented GET answers a call of fetchRequests
ServeGetWithIdentity(c) ==
    /\ BagIn(c, calls)
    /\ c.method = "GET"
    /\ ~c.answered
    /\ LET params == FetchParams(c.user)
           filtered == FilterBySenderId(Filtered(requestLog, params),
                                        SearchParamsGet(params, "senderId"))
       IN  /\ resp' = [op |-> "GET", status |-> 200, params |-> params,
                       requests |-> filtered, total |-> Len(filtered)]
           /\ calls' = (calls (-) SetToBag({c}))
                           (+) SetToBag({[c EXCEPT !.answered = TRUE, !.requests = filtered]})
    /\ UNCHANGED <<requestLog, inflight, clock, inserted, sinceClear>>
    /\ UNCHANGED <<requests, filteredRequests, selectedUser, memo, shownFor, removed>>

\* requests.some(r => r.senderId || r.senderName)
hasUserData(list) ==
    \E i \in 1..Len(list) :
        Truthy(Property(list[i], "senderId")) \/ Truthy(Property(list[i], "senderName"))

\* a click on a user of the UserStats list, which is there when the shown
\* requests have user data (the Show User Stats toggle is not part of the
\* model): setSelectedUser(userId), after which the effect on [selectedUser]
\* calls fetchRequests
SelectUser(userId) ==
    /\ hasUserData(requests)
    /\ userId # selectedUser
    /\ \/ userId = ALL
       \/ \E i \in 1..Len(userStats(requests)) : userStats(requests)[i].senderId = userId
    /\ selectedUser' = userId
    /\ calls' = calls (+) SetToBag({Call("GET", userId)})
    /\ UNCHANGED <<serverVars, requests, filteredRequests, memo, shownFor, removed>>

StartPostUsers ==
    /\ inserted + BagCardinality(inflight) < MaxPostsUsers
    /\ BagCardinality(inflight) < MaxInflightUsers
    /\ PostStart(POST_, PlainHeaders, LogUrl)

FinishPostUsers ==
    \E h \in BagToSet(inflight), b \in {BodyNyt, BodyEmpty} : PostFinishWithIdentity(h, b, RandA, 0)

RefreshUsers == BagCardinality(calls) < MaxCallsUsers /\ FetchStart

AnswerGetUsers == \E c \in BagToSet(calls) : ServeGetWithIdentity(c)

FetchFinishUsers == \E c \in BagToSet(calls) : FetchFinish(c)

SelectUserUsers ==
    /\ BagCardinality(calls) < MaxCallsUsers
    /\ \E userId \in {ALL, UserU1, Anonymous} : SelectUser(userId)

NextUsers ==
    \/ StartPostUsers \/ FinishPostUsers
    \/ RefreshUsers \/ AnswerGetUsers \/ FetchFinishUsers
    \/ SelectUserUsers
    \/ FilterEffectHome

SpecUsers == InitHome /\ [][NextUsers]_vars

\* ------------------------------------------------------------------------
\* Notions the claims use
\* ------------------------------------------------------------------------
\* the elements of a list
Range(list) == {list[i] : i \in 1..Len(list)}

\* a list of logged requests runs from the latest insertion to the earliest
NewestFirst(list) ==
    \A i, j \in 1..Len(list) : i < j => list[i].n > list[j].n

\* keys of the documentation's field reference
KeyEmailSubject == <<"e", "m", "a", "i", "l", "S", "u", "b", "j", "e", "c", "t">>

KeyEmailBody == <<"e", "m", "a", "i", "l", "B", "o", "d", "y">>

KeyEmailFrom == <<"e", "m", "a", "i", "l", "F", "r", "o", "m">>

KeyEmailTo == <<"e", "m", "a", "i", "l", "T", "o">>

KeyEmailType == <<"e", "m", "a", "i", "l", "T", "y", "p", "e">>

KeySource == <<"s", "o", "u", "r", "c", "e">>

KeyRecipientId == <<"r", "e", "c", "i", "p", "i", "e", "n", "t", "I", "d">>

\* the request was submitted with at least one of the email keys
SubmittedEmailKey(req) ==
    \E k \in {KeyEmailSubject, KeyEmailBody, KeyEmailFrom, KeyEmailTo, KeyEmailType} :
        BodyHas(req.body, k)

KeyScraperStatus == <<"s", "c", "r", "a", "p", "e", "r", "S", "t", "a", "t", "u", "s">>

KeyArticleUrl == <<"a", "r", "t", "i", "c", "l", "e", "U", "r", "l">>

KeyScrapedAt == <<"s", "c", "r", "a", "p", "e", "d", "A", "t">>

KeyContentType == <<"c", "o", "n", "t", "e", "n", "t", "T", "y", "p", "e">>

\* the request was submitted with at least one of the scraper keys
SubmittedScraperKey(req) ==
    \E k \in {KeySource, KeyScraperStatus, KeyArticleUrl, KeyScrapedAt, KeyContentType} :
        BodyHas(req.body, k)

\* the object has the boolean property called name, set to false
FlagClear(obj, name) == name \in DOMAIN obj /\ obj[name] = FALSE

\* the object has the property called name, with the given value
PropertyIs(obj, name, value) == name \in DOMAIN obj /\ obj[name] = value

\* the stored request has the boolean property called name, set to true
FlagSet(req, name) == name \in DOMAIN req /\ req[name] = TRUE

\* the step is the completion of a POST/PUT/PATCH handler
IsInsertion == inserted' = inserted + 1

\* the step is a DELETE
IsDelete == resp'.op = "DELETE" /\ inflight' = inflight

\* the step is a GET
IsGet == resp'.op = "GET" /\ inflight' = inflight

\* the sender name the request was submitted with contains the term,
\* letter case ignored
SenderNameContains(req, term) ==
    /\ BodyHas(req.body, <<"s", "e", "n", "d", "e", "r", "N", "a", "m", "e">>)
    /\ Includes(ToLowerCase(BodyValue(req.body, <<"s", "e", "n", "d", "e", "r", "N", "a", "m", "e">>)),
                ToLowerCase(term))

\* ------------------------------------------------------------------------
\* Claims
\* ------------------------------------------------------------------------
\* C1: in every reachable state, whatever the interleaving of appends,
\* queries and clears, the log holds at most CAPACITY = 300 requests.
C1_AtMostCapacity == Len(requestLog) <= CAPACITY

\* C1 witness: the log is full and has already evicted requests
C1_Witness == Len(requestLog) = LogLimit /\ sinceClear > LogLimit

\* C2 (as claimed): after more than 300 appends with no clear in between the
\* log holds exactly 300 requests, the 300 most recently appended.
C2_Exactly300MostRecent ==
    sinceClear > CAPACITY =>
        /\ Len(requestLog) = CAPACITY
        /\ \A i \in 1..CAPACITY : requestLog[i].n = inserted - i + 1

\* C3: the log is kept newest-first, an unfiltered query answers with the
\* log as it is (C, B, A after appending A, B, C), and a filtered query
\* answers with requests of the log in the log's order.
C3_NewestFirst ==
    /\ NewestFirst(requestLog)
    /\ resp.op = "GET" =>
        /\ NewestFirst(resp.requests)
        /\ Range(resp.requests) \subseteq Range(requestLog)
        /\ resp.params = NoFilter /\ Len(requestLog) = 3 =>
                /\ Len(resp.requests) = 3
                /\ resp.requests[1].n > resp.requests[2].n
                /\ resp.requests[2].n > resp.requests[3].n

\* C3 witness: a filter kept two of three logged requests
C3_Witness ==
    /\ resp.op = "GET"
    /\ resp.params # NoFilter
    /\ Len(requestLog) = 3
    /\ Len(resp.requests) = 2

\* C4: the completion of a POST, whatever the body decoded to (null when it
\* did not decode), puts exactly one new request in front of the log, the
\* earlier ones following unchanged, and answers 201 with success.
C4_AppendNeverRejects ==
    [][IsInsertion =>
        /\ Len(requestLog') >= 1
        /\ requestLog'[1].n = inserted'
        /\ requestLog'[1].body \in Bodies
        /\ Tail(requestLog') = SubSeq(requestLog, 1, Len(requestLog') - 1)
        /\ Len(requestLog') = (IF Len(requestLog) < LogLimit
                               THEN Len(requestLog) + 1 ELSE LogLimit)
        /\ resp'.op = "POST"
        /\ resp'.status = 201
        /\ resp'.success
        /\ resp'.id = requestLog'[1].id]_vars

\* C4 witness: a request whose body did not decode is in front of the log
\* and was answered 201
C4_Witness ==
    /\ resp.op = "POST"
    /\ resp.status = 201
    /\ Len(requestLog) >= 2
    /\ requestLog[1].body = NullBody
    /\ requestLog[1].id = resp.id

\* C5: DELETE empties the log and answers with the number of requests it
\* held just before; a DELETE that follows a DELETE answers 0.
C5_ClearReturnsCount ==
    [][IsDelete =>
        /\ requestLog' = <<>>
        /\ resp'.success
        /\ resp'.cleared = Len(requestLog)
        /\ requestLog = <<>> => resp'.cleared = 0
        /\ resp.op = "DELETE" => resp'.cleared = 0]_vars

\* C5 witness: a DELETE removed three requests
C5_Witness == resp.op = "DELETE" /\ resp.cleared = 3 /\ requestLog = <<>>

\* C6 (as claimed): filters are ANDed: a query with source=X and
\* isEmail=true answers with exactly the logged requests whose source is X
\* and that are email-shaped, and with the empty list when there is none.
C6_FiltersAnded ==
    resp.op = "GET" /\ resp.params = SourceXAndIsEmail =>
        /\ resp.requests =
                SelectSeq(requestLog,
                          LAMBDA req : /\ BodyValue(req.body, KeySource) = <<"X">>
                                       /\ SubmittedEmailKey(req))
        /\ resp.total = Len(resp.requests)

\* C7: a query without parameters answers with the whole log, and the total
\* of every answer is the length of its list.
C7_UnfilteredReturnsAll ==
    resp.op = "GET" =>
        /\ resp.total = Len(resp.requests)
        /\ resp.params = NoFilter => resp.requests = requestLog

\* C7 witness: a query without parameters answered with three requests
C7_Witness ==
    /\ resp.op = "GET"
    /\ resp.params = NoFilter
    /\ resp.total = 3
    /\ Len(requestLog) = 3

\* C8 (as claimed): the identity filters are exact matches: recipientId=r1
\* answers with exactly the logged requests whose recipient id is r1,
\* senderId=u1 with exactly those whose sender id is u1.
C8_IdentityFiltersExact ==
    resp.op = "GET" =>
        /\ resp.params = RecipientR1 =>
                resp.requests =
                    SelectSeq(requestLog,
                              LAMBDA req : BodyValue(req.body, KeyRecipientId) = <<"r", "1">>)
        /\ resp.params = SenderU1 =>
                resp.requests =
                    SelectSeq(requestLog,
                              LAMBDA req : BodyValue(req.body, KeySenderId) = <<"u", "1">>)

\* C9: the search ignores letter case and looks for the term anywhere in
\* the serialized request: search=digest and search=DIGEST answer with
\* exactly the requests whose body carries emailSubject "Weekly Digest" (no
\* other request of the model has the term in it), and a term that occurs in
\* no logged request answers with the empty list.
C9_SearchCaseInsensitive ==
    resp.op = "GET" =>
        /\ resp.params \in {SearchDigest, SearchDigestUpper} =>
                resp.requests =
                    SelectSeq(requestLog,
                              LAMBDA req : BodyValue(req.body, KeyEmailSubject)
                                              = <<"W", "e", "e", "k", "l", "y", " ", "D", "i", "g", "e", "s", "t">>)
        /\ resp.params = SearchUnrelated => resp.requests = <<>>

\* C9 witness: search=DIGEST found the one request with the subject among
\* three
C9_Witness ==
    /\ resp.op = "GET"
    /\ resp.params = SearchDigestUpper
    /\ Len(requestLog) = 3
    /\ Len(resp.requests) = 1
    /\ resp.requests[1].body = BodyDigest

\* C10 (as claimed): a request submitted with an email key and a scraper key
\* is stored with both flags true.
C10_BothFlagsSet ==
    \A i \in 1..Len(requestLog) :
        BodyHas(requestLog[i].body, KeyEmailSubject) /\ BodyHas(requestLog[i].body, KeySource) =>
            FlagSet(requestLog[i], "isEmail") /\ FlagSet(requestLog[i], "isScraper")

\* C11 (as claimed): a request submitted with none of the email or scraper
\* keys is stored, with both flags false.
C11_NoFlagsWithoutKeys ==
    \A i \in 1..Len(requestLog) :
        ~SubmittedEmailKey(requestLog[i]) /\ ~SubmittedScraperKey(requestLog[i]) =>
            FlagClear(requestLog[i], "isEmail") /\ FlagClear(requestLog[i], "isScraper")

\* C12 (as claimed): a request submitted with a source and without status,
\* scrapedAt and contentType is stored with scraper status "success",
\* content type "article" and a scraped-at equal to its receipt timestamp.
C12_ScraperDefaults ==
    \A i \in 1..Len(requestLog) :
        /\ BodyHas(requestLog[i].body, KeySource)
        /\ ~BodyHas(requestLog[i].body, KeyScraperStatus)
        /\ ~BodyHas(requestLog[i].body, KeyScrapedAt)
        /\ ~BodyHas(requestLog[i].body, KeyContentType)
        => /\ PropertyIs(requestLog[i], "scraperStatus", <<"s", "u", "c", "c", "e", "s", "s">>)
           /\ PropertyIs(requestLog[i], "contentType", <<"a", "r", "t", "i", "c", "l", "e">>)
           /\ PropertyIs(requestLog[i], "scrapedAt", requestLog[i].timestamp)

\* C13 (as claimed): the answer to a POST has status 201, success, the id
\* and the timestamp of the request just stored, and its two flags.
C13_PostResponse ==
    resp.op = "POST" =>
        /\ resp.status = 201
        /\ resp.success
        /\ resp.id = requestLog[1].id
        /\ resp.timestamp = requestLog[1].timestamp
        /\ "isEmail" \in DOMAIN resp
        /\ "isScraper" \in DOMAIN resp

\* C14: PUT and PATCH go through the append path: the completion of any of
\* the three handlers puts one request in front of the log, the earlier ones
\* following unchanged and the log cut to its limit, answers 201, and the
\* stored method is the verb of the request.
C14_PutPatchAliases ==
    [][IsInsertion =>
        \E h \in BagToSet(inflight) :
            /\ inflight' = inflight (-) SetToBag({h})
            /\ h.method \in {POST_, PUT_, PATCH_}
            /\ requestLog'[1].method = h.method
            /\ requestLog'[1].url = h.url
            /\ requestLog'[1].n = inserted'
            /\ Tail(requestLog') = SubSeq(requestLog, 1, Len(requestLog') - 1)
            /\ Len(requestLog') = (IF Len(requestLog) < LogLimit
                                   THEN Len(requestLog) + 1 ELSE LogLimit)
            /\ resp'.op = "POST"
            /\ resp'.status = 201]_vars

\* C14 witness: a PUT was stored in front of a PATCH
C14_Witness ==
    /\ Len(requestLog) = 2
    /\ requestLog[1].method = PUT_
    /\ requestLog[2].method = PATCH_
    /\ resp.op = "POST"
    /\ resp.id = requestLog[1].id

\* C15 (as claimed): senderName=S answers with exactly the logged requests
\* whose sender name contains S, letter case ignored.
C15_SenderNamePartial ==
    resp.op = "GET" /\ resp.params = SenderNameJoonas =>
        resp.requests =
            SelectSeq(requestLog,
                      LAMBDA req : SenderNameContains(req, <<"j", "o", "o", "n", "a", "s">>))

\* C16 (as claimed): method=M answers with exactly the logged requests
\* whose method is M as given.
C16_MethodFilterVerbatim ==
    resp.op = "GET" /\ resp.params = MethodPutLower =>
        resp.requests = SelectSeq(requestLog, LAMBDA req : req.method = <<"p", "u", "t">>)

\* C16 (amended): a non-empty method=M answers with exactly the logged
\* requests whose method is M in upper case; an empty M filters nothing.
C16_MethodFilterUpperCased ==
    resp.op = "GET" =>
        /\ resp.params = MethodPutLower =>
                resp.requests = SelectSeq(requestLog, LAMBDA req : req.method = PUT_)
        /\ resp.params = MethodPatchUpper =>
                resp.requests = SelectSeq(requestLog, LAMBDA req : req.method = PATCH_)
        /\ resp.params = MethodEmpty => resp.requests = requestLog

\* C16 witness: method=put picked the PUT out of two requests
C16_Witness ==
    /\ resp.op = "GET"
    /\ resp.params = MethodPutLower
    /\ Len(requestLog) = 2
    /\ Len(resp.requests) = 1
    /\ resp.requests[1].method = PUT_

\* C17: with several append handlers in flight, and queries and clears in
\* between, neither the log nor the list a query answers with is ever longer
\* than CAPACITY: insertion and cut are one step.
C17_AtomicInsertAndCut ==
    /\ Len(requestLog) <= CAPACITY
    /\ resp.op = "GET" => Len(resp.requests) <= CAPACITY /\ resp.total <= CAPACITY

\* C17 witness: a query saw a full log that had evicted requests while two
\* append handlers were in flight
C17_Witness ==
    /\ BagCardinality(inflight) = 2
    /\ resp.op = "GET"
    /\ resp.total = LogLimit
    /\ Len(requestLog) = LogLimit
    /\ sinceClear > LogLimit

\* C18: a GET leaves the log and the handlers in flight as they are, and its
\* list is made of requests of the log at that instant (all of them when no
\* parameter is given).
C18_QueryOnlyReads ==
    [][IsGet =>
        /\ requestLog' = requestLog
        /\ inserted' = inserted
        /\ Range(resp'.requests) \subseteq Range(requestLog)
        /\ resp'.total <= Len(requestLog)
        /\ resp'.params = NoFilter => resp'.requests = requestLog]_vars

\* C18 witness: a query that matched nothing left three requests in the log
C18_Witness ==
    /\ resp.op = "GET"
    /\ resp.params = MethodGet
    /\ resp.total = 0
    /\ Len(requestLog) = 3

\* C19: no step edits a stored request: a step leaves the log as it is, or
\* empties it (DELETE), or puts one request in front of the unchanged earlier
\* ones, of which at most the last is dropped and only from a full log.
C19_StoredRequestsImmutable ==
    [][IF IsInsertion
       THEN /\ Len(requestLog') >= 1
            /\ Tail(requestLog') = SubSeq(requestLog, 1, Len(requestLog') - 1)
            /\ \/ Len(requestLog') = Len(requestLog) + 1
               \/ Len(requestLog') = Len(requestLog) /\ Len(requestLog) = LogLimit
       ELSE \/ requestLog' = requestLog
            \/ IsDelete /\ requestLog' = <<>>]_vars

\* C19 witness: the log is full, has evicted requests and was cleared before
C19_Witness ==
    /\ Len(requestLog) = LogLimit
    /\ sinceClear > LogLimit
    /\ inserted > sinceClear

\* C20 (as claimed): no two requests in the log have the same id, and the
\* id given to a new request is the id of no request already in the log.
C20_IdsUnique ==
    \A i, j \in 1..Len(requestLog) : i # j => requestLog[i].id # requestLog[j].id

\* the sum of the count fields of a list of entries
RECURSIVE SumOfCounts(_)
SumOfCounts(list) ==
    IF Len(list) = 0 THEN 0 ELSE Head(list).count + SumOfCounts(Tail(list))

\* the user a request belongs to: its senderId when it has a non-empty one
SenderOf(req) ==
    IF "senderId" \in DOMAIN req /\ req.senderId # <<>> THEN req.senderId ELSE Anonymous

\* the session identifiers (non-empty sessionId values) of the requests of user
SessionsOf(list, user) ==
    {list[i].sessionId : i \in {j \in 1..Len(list) :
        /\ SenderOf(list[j]) = user
        /\ "sessionId" \in DOMAIN list[j]
        /\ list[j].sessionId # <<>>}}

\* C21: the user statistics partition the list by sender: each request is
\* counted under exactly one user (its senderId, 'anonymous' when it has
\* none or an empty one), the counts sum to the length of the list, a user's
\* sessions are the distinct session identifiers of that user's requests,
\* and the users are listed by non-increasing count.
C21_UserStatsPartition ==
    memo.op = "UserStats" =>
        LET list == memo.requests
            stats == memo.userStats
        IN  /\ \A i, j \in 1..Len(stats) : i # j => stats[i].senderId # stats[j].senderId
            /\ \A r \in 1..Len(list) : \E i \in 1..Len(stats) : stats[i].senderId = SenderOf(list[r])
            /\ \A i \in 1..Len(stats) :
                /\ stats[i].count = Cardinality({r \in 1..Len(list) : SenderOf(list[r]) = stats[i].senderId})
                /\ stats[i].count >= 1
                /\ Cardinality(stats[i].sessions) = Cardinality(SessionsOf(list, stats[i].senderId))
            /\ SumOfCounts(stats) = Len(list)
            /\ memo.totalRequests = Len(list)
            /\ \A i \in 1..(Len(stats) - 1) : stats[i].count >= stats[i + 1].count

\* C21 witness: a user with two requests of one session is listed before
\* the anonymous user, whose single request came first in the list
C21_Witness ==
    /\ memo.op = "UserStats"
    /\ Len(memo.userStats) = 2
    /\ memo.userStats[1].count = 2
    /\ Cardinality(memo.userStats[1].sessions) = 1
    /\ memo.userStats[1].senderId # SenderOf(memo.requests[1])
    /\ memo.userStats[2].senderId = Anonymous

\* the session a request belongs to: its sessionId when it has a non-empty one
SessionOf(req) ==
    IF "sessionId" \in DOMAIN req /\ req.sessionId # <<>> THEN req.sessionId ELSE NoSession

\* the places <<g, k>> of the groups at which the request req stands
PlacesOf(groups, req) ==
    {p \in UNION {{<<g, k>> : k \in 1..Len(groups[g].requests)} : g \in 1..Len(groups)} :
        groups[p[1]].requests[p[2]] = req}

\* the time of the latest request of a group
LatestOf(group) ==
    CHOOSE t \in {DateGetTime(group.requests[k].timestamp) : k \in 1..Len(group.requests)} :
        \A k \in 1..Len(group.requests) : t >= DateGetTime(group.requests[k].timestamp)

\* C22: with a user selected, every filtered request stands in exactly one
\* session group, the one of its sessionId ('no-session' when it has none or
\* an empty one); a group's count is the number of its requests and the
\* counts sum to the number of filtered requests; a group's requests are
\* newest first and the groups are ordered by their latest request, newest
\* first. With 'ALL' selected there are no groups.
C22_SessionGroups ==
    memo.op = "sessionGroups" =>
        LET list == memo.filteredRequests
            groups == memo.sessionGroups
        IN  IF memo.selectedUser = ALL THEN Len(groups) = 0
            ELSE /\ \A g, h \in 1..Len(groups) : g # h => groups[g].sessionId # groups[h].sessionId
                 /\ \A r \in 1..Len(list) :
                        /\ Cardinality(PlacesOf(groups, list[r])) = 1
                        /\ \A p \in PlacesOf(groups, list[r]) :
                               groups[p[1]].sessionId = SessionOf(list[r])
                 /\ \A g \in 1..Len(groups) :
                        /\ groups[g].count = Len(groups[g].requests)
                        /\ groups[g].count >= 1
                        /\ \A k \in 1..(groups[g].count - 1) :
                               DateGetTime(groups[g].requests[k].timestamp)
                                   >= DateGetTime(groups[g].requests[k + 1].timestamp)
                 /\ SumOfCounts(groups) = Len(list)
                 /\ \A g \in 1..(Len(groups) - 1) : LatestOf(groups[g]) >= LatestOf(groups[g + 1])

\* C22 witness: of three requests given oldest first, the two of the first
\* session form the second group, newest first, behind the later session
C22_Witness ==
    /\ memo.op = "sessionGroups"
    /\ memo.selectedUser # ALL
    /\ Len(memo.filteredRequests) = 3
    /\ Len(memo.sessionGroups) = 2
    /\ memo.sessionGroups[1].requests = <<memo.filteredRequests[3]>>
    /\ memo.sessionGroups[2].requests = <<memo.filteredRequests[2], memo.filteredRequests[1]>>
    /\ LatestOf(memo.sessionGroups[1]) > LatestOf(memo.sessionGroups[2])

\* text occurs in s, letter case ignored
OccursIn(s, text) == Includes(ToLowerCase(s), ToLowerCase(text))

\* text occurs in a key or a value of the decoded body
OccursInBody(req, text) ==
    /\ req.body.type = "object"
    /\ \E i \in 1..Len(req.body.members) :
        OccursIn(req.body.members[i][1], text) \/ OccursIn(req.body.members[i][2], text)

\* text occurs in a header name or value, the id, the address or the URL
OccursInInternal(req, text) ==
    \/ \E i \in 1..Len(req.headers) :
        OccursIn(req.headers[i][1], text) \/ OccursIn(req.headers[i][2], text)
    \/ OccursIn(req.id, text)
    \/ OccursIn(req.ip, text)
    \/ OccursIn(req.url, text)

\* C23: a search for a text returns every request in which the text occurs,
\* letter case ignored, in a header name or value, the id, the address or
\* the URL, although it occurs nowhere in the body.
C23_SearchMatchesInternalFields ==
    (resp.op = "GET" /\ SearchParamsGet(resp.params, "search") # Null) =>
        LET text == SearchParamsGet(resp.params, "search")
        IN  \A i \in 1..Len(requestLog) :
                (OccursInInternal(requestLog[i], text) /\ ~OccursInBody(requestLog[i], text))
                    => requestLog[i] \in Range(resp.requests)

\* C23 witness: of two requests with the empty body {} the search for K3X9
\* returned the one whose id ends in k3x9
C23_Witness ==
    /\ resp.op = "GET"
    /\ resp.params = SearchIdPart
    /\ Len(requestLog) = 2
    /\ resp.total = 1
    /\ resp.requests[1].body = BodyEmpty
    /\ \A i \in 1..2 : requestLog[i].body = BodyEmpty

\* C24 (as claimed): an insertion into a log of fewer than 300 requests
\* evicts nothing and the log grows by one; an insertion into a log of
\* exactly 300 evicts the single oldest request and the log stays at 300;
\* no insertion shrinks the log.
C24_EvictsAtMostOne ==
    [][IsInsertion =>
        /\ Len(requestLog) < CAPACITY =>
            /\ Len(requestLog') = Len(requestLog) + 1
            /\ Tail(requestLog') = requestLog
        /\ Len(requestLog) = CAPACITY =>
            /\ Len(requestLog') = CAPACITY
            /\ Tail(requestLog') = SubSeq(requestLog, 1, CAPACITY - 1)
        /\ Len(requestLog') >= Len(requestLog)]_vars

\* C25: the timestamps of the log never increase from the front to the
\* back, whatever the order in which waiting handlers get their bodies.
C25_OrderAgreesWithReceiptTime ==
    \A i, j \in 1..Len(requestLog) :
        i < j => DateGetTime(requestLog[i].timestamp) >= DateGetTime(requestLog[j].timestamp)

\* C25 witness: the request in front was entered before the one behind it,
\* got its body later and has the later timestamp
C25_Witness ==
    /\ Len(requestLog) >= 2
    /\ requestLog[1].started < requestLog[2].started
    /\ DateGetTime(requestLog[1].timestamp) > DateGetTime(requestLog[2].timestamp)

\* the smaller of two numbers
Min(a, b) == IF a <= b THEN a ELSE b

\* C26 (as claimed): the log holds min(300, number of insertions completed
\* since the most recent DELETE) requests, the insertions of handlers that
\* were waiting for their bodies during the DELETE included.
C26_SizeIsInsertionsSinceClear ==
    Len(requestLog) = Min(CAPACITY, sinceClear)

\* a step in which a POST handler answers: one waiting handler is gone
IsPostAnswer == BagCardinality(inflight') = BagCardinality(inflight) - 1

C28_ClearedNeverShownAgain ==
    \A i \in 1..Len(requests) : requests[i].n \notin removed

====
